---- MODULE Spec2Model ----
(***************************************************************************)
(* Model of chost's hosts-file reconciler (class HostsManager) and of the   *)
(* request handling of its reverse proxy (class ProxyServer).              *)
(*                                                                         *)
(* Representation.  A file content is the sequence of its lines, i.e. the  *)
(* value of content.split('\n'); lines.join('\n') is its inverse, so the   *)
(* empty file is << <<>> >> and a newline-terminated file ends with the    *)
(* empty line <<>>.  A line is a sequence of tokens: a whitespace token    *)
(* (" " or "\t") or a word.  The two marker texts are single tokens,       *)
(* although they hold spaces, so that line.includes(marker) is a test for  *)
(* the token; Words() gives back their words where the code splits a line  *)
(* on whitespace.                                                          *)
(***************************************************************************)
EXTENDS Integers, Sequences, FiniteSets, TLC

VARIABLES hosts,      \* content of the hosts file (this.hostsPath), as lines
          backup,     \* content of the backup slot (this.backupPath), NoBackup if absent
          pre,        \* history: hosts when the last call began
          preBackup,  \* history: backup when the last call began
          last,       \* history: the last call, its outcome and its side effects
          calls,      \* history: the number of calls made
          procs,      \* the calls in flight when calls overlap: where each one is
          rt,         \* a round trip through buildHostsContent and parseHosts
          config,     \* the registry file .chost (configManager.configPath)
          req,        \* the request the proxy is handling, or has just handled
          served,     \* the number of requests received
          exited,     \* the proxy's process has exited
          tls,        \* the TLS handshake the proxy is serving, or has just served
          settings,   \* the settings of the registry file (proxyPort, sslPort)
          servers,    \* the server objects created so far, in order of creation
          httpServer, \* this.httpServer: an index in servers, 0 for null
          httpsServer, \* this.httpsServer: an index in servers, 0 for null
          proxy,      \* this.proxy is not null
          ops,        \* the start, stop and reload calls in progress
          invoked     \* the calls of start, stop and reload made so far

vars == <<hosts, backup, pre, preBackup, last, calls, procs, rt,
          config, req, served, exited, tls,
          settings, servers, httpServer, httpsServer, proxy, ops, invoked>>

hostsVars == <<hosts, backup, pre, preBackup, last, calls, procs, rt>>
lifeVars == <<settings, servers, httpServer, httpsServer, proxy, ops, invoked>>
proxyVars == <<config, req, served, exited, tls,
               settings, servers, httpServer, httpsServer, proxy, ops, invoked>>

-----------------------------------------------------------------------------
(* Bounds of the model *)

MaxLines == 3         \* longest initial hosts file, in lines
MaxCalls == 2         \* calls made in one run
MaxConcLines == 1     \* longest initial hosts file under overlapping calls
MaxRequests == 2      \* requests the proxy receives in one run
MaxHandshakes == 2    \* TLS handshakes the proxy receives in one run
MaxOps == 3           \* calls of start, stop and reload in one run

-----------------------------------------------------------------------------
(* Text: tokens, lines, the markers *)

marker == "# CHost managed domains"
endMarker == "# End CHost managed domains"

LOOPBACK == "127.0.0.1"
TAB == "\t"
SPACE == " "

Whitespace == {SPACE, TAB}

\* Hostnames (each passes validateDomain), and those the calls are made with
Hostnames == {"api.local", "app.local", "db.local"}
CallDomains == {"api.local", "app.local"}

\* UTF-16 code units of the words that can come out of a managed entry;
\* Array.prototype.sort() without a comparator orders strings by them.
CodeUnits ==
  [w \in Hostnames \cup {"localhost", LOOPBACK, ""} |->
     CASE w = "api.local" -> <<97, 112, 105, 46, 108, 111, 99, 97, 108>>
       [] w = "app.local" -> <<97, 112, 112, 46, 108, 111, 99, 97, 108>>
       [] w = "db.local"  -> <<100, 98, 46, 108, 111, 99, 97, 108>>
       [] w = "localhost" -> <<108, 111, 99, 97, 108, 104, 111, 115, 116>>
       [] w = LOOPBACK    -> <<49, 50, 55, 46, 48, 46, 48, 46, 49>>
       [] w = ""          -> <<>>]

RECURSIVE LexLess(_, _)
LexLess(a, b) ==
  IF b = <<>> THEN FALSE
  ELSE IF a = <<>> THEN TRUE
  ELSE IF Head(a) # Head(b) THEN Head(a) < Head(b)
  ELSE LexLess(Tail(a), Tail(b))

StrLess(a, b) == LexLess(CodeUnits[a], CodeUnits[b])

\* line.includes(text), for the two marker texts
Includes(line, text) == \E i \in 1..Len(line) : line[i] = text

\* lines.findIndex((line) => line.includes(text)), 1-based; 0 stands for -1
FindIndex(lines, text) ==
  IF \E i \in 1..Len(lines) : Includes(lines[i], text)
  THEN CHOOSE i \in 1..Len(lines) :
         Includes(lines[i], text) /\ \A j \in 1..(i - 1) : ~Includes(lines[j], text)
  ELSE 0

\* Array.prototype.slice(from, to) with 0-based from and exclusive to,
\* given here as the 1-based inclusive range lo..hi
Slice(lines, lo, hi) == IF lo > hi THEN <<>> ELSE SubSeq(lines, lo, hi)

\* lines.join('\n') and content.split('\n') on this representation: the two
\* are inverse to each other but for the array of no lines, which joins to
\* the empty content, and that splits into one empty line.
Join(lines) == IF lines = <<>> THEN << <<>> >> ELSE lines
Split(content) == content

\* String.prototype.trim
RECURSIVE TrimLeft(_)
TrimLeft(line) ==
  IF line # <<>> /\ Head(line) \in Whitespace THEN TrimLeft(Tail(line)) ELSE line

RECURSIVE TrimRight(_)
TrimRight(line) ==
  IF line # <<>> /\ line[Len(line)] \in Whitespace
  THEN TrimRight(SubSeq(line, 1, Len(line) - 1))
  ELSE line

Trim(line) == TrimRight(TrimLeft(line))

\* The tokens whose text begins with '#'
StartsWithHash(line) == line # <<>> /\ Head(line) \in {marker, endMarker, "#"}

\* The whitespace-separated words of one token
Words(tok) ==
  IF tok = marker THEN <<"#", "CHost", "managed", "domains">>
  ELSE IF tok = endMarker THEN <<"#", "End", "CHost", "managed", "domains">>
  ELSE <<tok>>

\* line.split(/\s+/): the pieces between the runs of whitespace; a line that
\* begins or ends with whitespace gets an empty first or last piece.
\* done: the pieces closed so far; cur: the piece being read; inWs: the
\* previous token was whitespace.
RECURSIVE SplitFrom(_, _, _, _)
SplitFrom(line, done, cur, inWs) ==
  IF line = <<>> THEN Append(done, cur)
  ELSE IF Head(line) \in Whitespace
       THEN IF inWs THEN SplitFrom(Tail(line), done, cur, TRUE)
            ELSE SplitFrom(Tail(line), Append(done, cur), "", TRUE)
       ELSE LET ws == Words(Head(line))
                n  == Len(ws)
            IN  IF n = 1
                THEN SplitFrom(Tail(line), done, cur \o ws[1], FALSE)
                ELSE SplitFrom(Tail(line),
                               done \o <<cur \o ws[1]>> \o SubSeq(ws, 2, n - 1),
                               ws[n], FALSE)

SplitWs(line) == SplitFrom(line, <<>>, "", FALSE)

-----------------------------------------------------------------------------
(* HostsManager: the pure part *)

IsStart(line) == Includes(line, marker)
IsEnd(line) == Includes(line, endMarker)

\* .filter((line) => line.trim() && !line.trim().startsWith('#'))
IsEntry(line) == Trim(line) # <<>> /\ ~StartsWithHash(Trim(line))

parseHosts(content) ==
  LET lines == Split(content)
      managedStart == FindIndex(lines, marker)
      managedEnd == FindIndex(lines, endMarker)
  IN  IF managedStart = 0
      THEN [beforeManaged |-> lines, managedEntries |-> <<>>, afterManaged |-> <<>>]
      ELSE IF managedEnd = 0
      THEN [beforeManaged |-> Slice(lines, 1, managedStart - 1),
            managedEntries |-> <<>>, afterManaged |-> <<>>]
      ELSE [beforeManaged |-> Slice(lines, 1, managedStart - 1),
            managedEntries |->
              SelectSeq(Slice(lines, managedStart + 1, managedEnd - 1), IsEntry),
            afterManaged |-> Slice(lines, managedEnd + 1, Len(lines))]

\* `127.0.0.1\t${domain}`
EntryLine(domain) == <<LOOPBACK, TAB, domain>>

\* A faulty buildHostsContent: the markers are written around an empty block too
buildWithEmptyBlock(beforeManaged, domains, afterManaged) ==
  Join(beforeManaged
       \o <<<<marker>>>>
       \o [i \in 1..Len(domains) |-> EntryLine(domains[i])]
       \o <<<<endMarker>>>>
       \o afterManaged)

buildHostsContent(beforeManaged, domains, afterManaged) ==
  LET block == IF Len(domains) > 0
               THEN <<<<marker>>>>
                    \o [i \in 1..Len(domains) |-> EntryLine(domains[i])]
                    \o <<<<endMarker>>>>
               ELSE <<>>
  IN  Join(beforeManaged \o block \o afterManaged)

\* A faulty extraction: the first piece of the line is taken for the domain
RECURSIVE ExtractFirstPiece(_)
ExtractFirstPiece(entries) ==
  IF entries = <<>> THEN <<>>
  ELSE <<SplitWs(Head(entries))[1]>> \o ExtractFirstPiece(Tail(entries))

\* .map(line => { parts = line.split(/\s+/); parts.length >= 2 ? parts[1] : null })
\* .filter(Boolean): null and the empty string are dropped
RECURSIVE ExtractDomains(_)
ExtractDomains(entries) ==
  IF entries = <<>> THEN <<>>
  ELSE LET parts == SplitWs(Head(entries))
           rest == ExtractDomains(Tail(entries))
       IN  IF Len(parts) >= 2 /\ parts[2] # "" THEN <<parts[2]>> \o rest ELSE rest

\* getManagedDomains, on a content that was read
ManagedDomains(content) == ExtractDomains(parseHosts(content).managedEntries)

InSeq(x, s) == \E i \in 1..Len(s) : s[i] = x

\* A faulty sort: the domains are left in the order they came in
SortNot(domains) == domains

\* [...domains].sort()
Sort(domains) == SortSeq(domains, StrLess)

\* The decision each call takes from the content it read: whether it writes,
\* and the content it writes.
\* A faulty addDomain: the domain is written whether it is present or not
addPlanAlways(content, domain) ==
  LET p == parseHosts(content)
      currentDomains == ExtractDomains(p.managedEntries)
  IN  [write |-> TRUE,
       content |-> buildHostsContent(p.beforeManaged,
                                     Sort(Append(currentDomains, domain)),
                                     p.afterManaged)]

addPlan(content, domain) ==
  LET p == parseHosts(content)
      currentDomains == ExtractDomains(p.managedEntries)
  IN  IF ~InSeq(domain, currentDomains)
      THEN [write |-> TRUE,
            content |-> buildHostsContent(p.beforeManaged,
                                          Sort(Append(currentDomains, domain)),
                                          p.afterManaged)]
      ELSE [write |-> FALSE, content |-> content]

NotDomain(domain, d) == d # domain

removePlan(content, domain) ==
  LET p == parseHosts(content)
      currentDomains == ExtractDomains(p.managedEntries)
      Keep(d) == NotDomain(domain, d)
      updatedDomains == SelectSeq(currentDomains, Keep)
  IN  IF Len(updatedDomains) # Len(currentDomains)
      THEN [write |-> TRUE,
            content |-> buildHostsContent(p.beforeManaged, updatedDomains,
                                          p.afterManaged)]
      ELSE [write |-> FALSE, content |-> content]

syncPlan(content, domains) ==
  LET p == parseHosts(content)
  IN  [write |-> TRUE,
       content |-> buildHostsContent(p.beforeManaged, Sort(domains), p.afterManaged)]

clearPlan(content) ==
  LET p == parseHosts(content)
  IN  [write |-> TRUE,
       content |-> buildHostsContent(p.beforeManaged, <<>>, p.afterManaged)]

-----------------------------------------------------------------------------
(* The file system *)

NoBackup == <<>>      \* no file at this.backupPath (a content has a line at least)

\* fs.writeFile(path, content): opens the file with flag 'w', which truncates
\* it, then writes.  It succeeds, or it fails before the file is opened
\* (the old content stays), or it fails after the truncation with the first
\* k lines written (disk full, I/O error).
writeFile(old, content) ==
  {[ok |-> TRUE, content |-> content], [ok |-> FALSE, content |-> old]}
  \cup {[ok |-> FALSE, content |-> Join(SubSeq(content, 1, k))] :
          k \in 0..(Len(content) - 1)}

-----------------------------------------------------------------------------
(* The inputs *)

Localhost == <<LOOPBACK, SPACE, "localhost">>
Blank == <<>>

\* The lines the initial hosts file is made of
LineSet == {Localhost, Blank, <<marker>>, <<endMarker>>, EntryLine("db.local")}

RECURSIVE SeqsUpTo(_, _)
SeqsUpTo(S, n) ==
  IF n = 0 THEN {<<>>}
  ELSE LET shorter == SeqsUpTo(S, n - 1)
       IN  shorter \cup {Append(q, x) : q \in shorter, x \in S}

InitialFiles == SeqsUpTo(LineSet, MaxLines) \ {<<>>}

\* The arrays syncDomains is called with: the hostnames of a set, in any order
DomainLists ==
  {q \in SeqsUpTo(CallDomains, Cardinality(CallDomains)) :
     \A i, j \in 1..Len(q) : i # j => q[i] # q[j]}

-----------------------------------------------------------------------------
(* The calls, each one whole when no other call runs meanwhile.            *)
(*                                                                         *)
(* The history variables pre, preBackup and last record one call of a run, *)
(* the observed call: the calls before it leave them alone and the run     *)
(* ends with it.  Any call of a run can be the observed one, so a relation *)
(* between pre, last and hosts that holds in every reachable state holds   *)
(* of every call made within MaxCalls calls.  The calls before the         *)
(* observed one meet no fault (a refused permission, an I/O error, a       *)
(* failed backup): a fault is explored in the observed call.               *)

Call(op, arg, result, wrote, flush) ==
  [op |-> op, arg |-> arg, result |-> result, wrote |-> wrote, flush |-> flush]

NoCall == Call("none", <<>>, "none", FALSE, "none")

\* The callers whose calls overlap
Procs == {"p", "q"}

\* pc: where the call is; content: its newContent from the time it is built
\* to the time it is written
Idle == [pc |-> "idle", op |-> "none", arg |-> <<>>, content |-> <<>>,
         result |-> "none"]

NoTrip == [stage |-> "none", before |-> <<>>, domains |-> <<>>, after |-> <<>>,
           content |-> <<>>, managed |-> <<>>]

\* No registry file
NoConfig == [file |-> "missing", domains |-> <<>>]

\* What the registry holds for a hostname: no entry, or an entry's port and
\* proxy flag; readable: the registry file can be loaded
NoEntry == [readable |-> FALSE, entry |-> FALSE, port |-> 0, proxy |-> FALSE]

\* stage: where the request is; header, host: its Host header and the host
\* taken from it; seen: history, what the registry held for host at the
\* lookup; target: the port it was forwarded to; status, bodyHost, bodyPort:
\* the response's status and what the page names; upgrade: the request asks
\* for a protocol upgrade (Connection: Upgrade)
NoRequest == [stage |-> "none", header |-> <<>>, host |-> "", seen |-> NoEntry,
              target |-> "none", status |-> 0, bodyHost |-> <<>>,
              bodyPort |-> "none", upgrade |-> FALSE]

\* stage: where the handshake is; seen: history, the registry file held an
\* entry with ssl enabled for servername at the lookup; generated: a key pair
\* was generated for it; cn: the common name of the certificate handed to the
\* handshake; result: what the callback of SNICallback was given; failures:
\* history, the handshakes whose certificate generation failed; count: the
\* handshakes so far
NoHandshake == [stage |-> "none", servername |-> "", seen |-> FALSE,
                generated |-> FALSE, cn |-> "none", result |-> "none",
                failures |-> 0, count |-> 0]

\* getDefaultConfig().settings, by its ports
DefaultSettings == [proxyPort |-> 80, sslPort |-> 443]

\* A server object: http.createServer or https.createServer, then listen(port).
\* state: "listening", "failed" (the bind failed, 'error' is to be emitted),
\* "errored" (the bind failed, 'error' does no more than log), "closing"
\* (close() called), "closed";
\* code: the error of the bind; conns: connections in flight; waiting: the
\* stop calls whose onServerClose is its close callback
Server(kind, port, state, code) ==
  [kind |-> kind, port |-> port, state |-> state, code |-> code,
   conns |-> FALSE, waiting |-> {}]

\* The callers of start, stop and reload: the command that the process runs,
\* and its SIGINT handler, which calls stop()
Callers == {"a", "b"}
Commands == {"a"}

\* op, pc: the call and where it is; closedCount: of a stop call;
\* reloading: the call is made by reload; result: how the call ended;
\* before: history, the ports of the two listeners when reload was called on
\* a running proxy
IdleOp == [op |-> "none", pc |-> "idle", closedCount |-> 0,
           reloading |-> FALSE, result |-> "none", before |-> <<>>]

\* new ProxyServer()
Constructed ==
  /\ servers = <<>>
  /\ httpServer = 0
  /\ httpsServer = 0
  /\ proxy = FALSE
  /\ ops = [c \in Callers |-> IdleOp]
  /\ invoked = 0

\* The proxy is not started
ProxyOff ==
  /\ config = NoConfig
  /\ req = NoRequest
  /\ served = 0
  /\ exited = FALSE
  /\ tls = NoHandshake
  /\ settings = DefaultSettings
  /\ Constructed

Init ==
  /\ ProxyOff
  /\ hosts \in InitialFiles
  /\ backup = NoBackup
  /\ pre = hosts
  /\ preBackup = backup
  /\ last = NoCall
  /\ calls = 0
  /\ procs = [p \in Procs |-> Idle]
  /\ rt = NoTrip

CanCall == last = NoCall /\ calls < MaxCalls

\* One more call is made, with this outcome; it is observed, or it met no
\* fault and is not
Record(call, fault) ==
  /\ UNCHANGED <<procs, rt>>
  /\ UNCHANGED proxyVars
  /\ calls' = calls + 1
  /\ \/ /\ pre' = hosts
        /\ preBackup' = backup
        /\ last' = call
     \/ /\ ~fault
        /\ UNCHANGED <<pre, preBackup, last>>

\* A faulty permission check: made by writeHosts, once the backup is taken
permissionDeniedLate(op, arg) ==
  /\ Record(Call(op, arg, "EPERM", FALSE, "none"), TRUE)
  /\ backup' = hosts
  /\ UNCHANGED hosts

\* checkPermissions() is false: the call throws 'Insufficient permissions ...'
\* ahead of its try block, so before readHosts, createBackup and fs.writeFile
permissionDenied(op, arg) ==
  /\ Record(Call(op, arg, "EPERM", FALSE, "none"), TRUE)
  /\ UNCHANGED <<hosts, backup>>

\* A faulty flushDNS: the failure of the flush command is thrown to writeHosts
writeHostsFlushThrows(flush) == IF flush = "failed" THEN "EWRITE" ELSE "ok"

\* The outcome of writeHosts once fs.writeFile is done: flushDNS catches the
\* failure of its command, so writeHosts completes whatever the flush did
writeHostsResult(flush) == "ok"

\* checkPermissions, readHosts, the call's decision, writeHosts and flushDNS
Reconcile(op, arg, plan) ==
  /\ CanCall
  /\ \/ permissionDenied(op, arg)
     \/ \* readHosts() throws: 'Cannot read hosts file'
        /\ Record(Call(op, arg, "EREAD", FALSE, "none"), TRUE)
        /\ UNCHANGED <<hosts, backup>>
     \/ \* nothing to change
        /\ ~plan.write
        /\ Record(Call(op, arg, "ok", FALSE, "none"), FALSE)
        /\ UNCHANGED <<hosts, backup>>
     \/ \* writeHosts(newContent): createBackup, fs.writeFile, flushDNS
        /\ plan.write
        /\ \E copied \in BOOLEAN, w \in writeFile(hosts, plan.content) :
             /\ backup' = IF copied THEN hosts ELSE backup
             /\ hosts' = w.content
             /\ IF w.ok
                THEN \E flush \in {"ok", "failed"} :
                       Record(Call(op, arg, writeHostsResult(flush), TRUE, flush),
                              ~copied \/ flush = "failed")
                ELSE Record(Call(op, arg, "EWRITE", TRUE, "none"), TRUE)

addDomain(domain) == Reconcile("add", <<domain>>, addPlan(hosts, domain))

removeDomain(domain) == Reconcile("remove", <<domain>>, removePlan(hosts, domain))

syncDomains(domains) == Reconcile("sync", domains, syncPlan(hosts, domains))

removeAllDomains == Reconcile("clear", <<>>, clearPlan(hosts))

\* A faulty restoreBackup: fs.copy is made without asking fs.pathExists, and
\* throws when there is no backup file
restoreBlind ==
  IF backup # NoBackup
  THEN {[result |-> "true", content |-> backup, wrote |-> TRUE, flush |-> f] :
          f \in {"ok", "failed"}}
  ELSE {[result |-> "ERESTORE", content |-> hosts, wrote |-> FALSE,
         flush |-> "none"]}

\* The outcomes of restoreBackup: with a backup file, fs.copy over the hosts
\* file and flushDNS, or fs.copy throws 'Failed to restore hosts file';
\* with none, 'No backup file found'
restoreOutcomes ==
  IF backup # NoBackup
  THEN {[result |-> "true", content |-> backup, wrote |-> TRUE, flush |-> f] :
          f \in {"ok", "failed"}}
       \cup {[result |-> "ERESTORE", content |-> hosts, wrote |-> FALSE,
              flush |-> "none"]}
  ELSE {[result |-> "false", content |-> hosts, wrote |-> FALSE,
         flush |-> "none"]}

\* restoreBackup is called as any other call, or directly after the observed
\* call when that one wrote the hosts file and succeeded: pre is then still
\* the content that preceded the write
restoreBackup ==
  /\ UNCHANGED backup
  /\ \E r \in restoreOutcomes :
       /\ hosts' = r.content
       /\ \/ /\ CanCall
             /\ Record(Call("restore", <<>>, r.result, r.wrote, r.flush),
                       r.result = "ERESTORE" \/ r.flush = "failed")
          \/ /\ last.op \in {"add", "remove", "sync", "clear"}
             /\ last.result = "ok" /\ last.wrote
             /\ last' = Call("restoreAfterWrite", <<>>, r.result, r.wrote, r.flush)
             /\ calls' = calls + 1
             /\ UNCHANGED <<pre, preBackup, procs, rt>>
             /\ UNCHANGED proxyVars

Next ==
  \/ \E domain \in CallDomains : addDomain(domain)
  \/ \E domain \in CallDomains : removeDomain(domain)
  \/ \E domains \in DomainLists : syncDomains(domains)
  \/ removeAllDomains
  \/ restoreBackup

Spec == Init /\ [][Next]_vars

\* The runs that start from a hosts file with no managed block: parseHosts
\* finds no start marker
InitFresh == Init /\ FindIndex(Split(hosts), marker) = 0

SpecFresh == InitFresh /\ [][Next]_vars

-----------------------------------------------------------------------------
(* Overlapping calls.  Each call is an async function: it runs to its next *)
(* await, and the calls in flight take their steps in any order.  pre is   *)
(* the hosts file at the start.                                            *)

InitConc ==
  /\ ProxyOff
  /\ hosts \in SeqsUpTo(LineSet, MaxConcLines) \ {<<>>}
  /\ backup = NoBackup
  /\ pre = hosts
  /\ preBackup = backup
  /\ last = NoCall
  /\ calls = 0
  /\ procs = [p \in Procs |-> Idle]
  /\ rt = NoTrip

Step(p, now) ==
  /\ procs' = [procs EXCEPT ![p] = now]
  /\ UNCHANGED <<pre, preBackup, last, calls, rt>>
  /\ UNCHANGED proxyVars

\* The call is made: it runs up to `await this.checkPermissions()`
Invoke(p, op, arg) ==
  /\ procs[p].pc = "idle"
  /\ Step(p, [procs[p] EXCEPT !.pc = "check", !.op = op, !.arg = arg])
  /\ UNCHANGED <<hosts, backup>>

callAddDomain(p, domain) == Invoke(p, "add", <<domain>>)
callRemoveDomain(p, domain) == Invoke(p, "remove", <<domain>>)
callSyncDomains(p, domains) == Invoke(p, "sync", domains)
callRemoveAllDomains(p) == Invoke(p, "clear", <<>>)

\* The decision of the call op(arg) on the content it read
planOf(op, arg, content) ==
  CASE op = "add" -> addPlan(content, arg[1])
    [] op = "remove" -> removePlan(content, arg[1])
    [] op = "sync" -> syncPlan(content, arg)
    [] op = "clear" -> clearPlan(content)

\* fs.access answers
checkPermissions(p) ==
  /\ procs[p].pc = "check"
  /\ UNCHANGED <<hosts, backup>>
  /\ \/ Step(p, [procs[p] EXCEPT !.pc = "read"])
     \/ Step(p, [procs[p] EXCEPT !.pc = "done", !.result = "EPERM"])

\* fs.readFile answers; the call parses, decides, and builds the new content
readHosts(p) ==
  /\ procs[p].pc = "read"
  /\ UNCHANGED <<hosts, backup>>
  /\ \/ LET plan == planOf(procs[p].op, procs[p].arg, hosts)
        IN  IF plan.write
            THEN Step(p, [procs[p] EXCEPT !.pc = "backup", !.content = plan.content])
            ELSE Step(p, [procs[p] EXCEPT !.pc = "done", !.result = "ok"])
     \/ Step(p, [procs[p] EXCEPT !.pc = "done", !.result = "EREAD"])

\* writeHosts: fs.copy to the backup slot is done, or has failed
createBackup(p) ==
  /\ procs[p].pc = "backup"
  /\ UNCHANGED hosts
  /\ \E copied \in BOOLEAN : backup' = IF copied THEN hosts ELSE backup
  /\ Step(p, [procs[p] EXCEPT !.pc = "write"])

\* writeHosts: fs.writeFile is done, or has failed
writeHosts(p) ==
  /\ procs[p].pc = "write"
  /\ UNCHANGED backup
  /\ \E w \in writeFile(hosts, procs[p].content) :
       /\ hosts' = w.content
       /\ IF w.ok
          THEN Step(p, [procs[p] EXCEPT !.pc = "flush", !.content = <<>>])
          ELSE Step(p, [procs[p] EXCEPT !.pc = "done", !.content = <<>>,
                                        !.result = "EWRITE"])

\* writeHosts: flushDNS is over, whether it worked or not
flushDNS(p) ==
  /\ procs[p].pc = "flush"
  /\ UNCHANGED <<hosts, backup>>
  /\ Step(p, [procs[p] EXCEPT !.pc = "done", !.result = "ok"])

NextConc ==
  \E p \in Procs :
    \/ \E domain \in CallDomains : callAddDomain(p, domain)
    \/ \E domain \in CallDomains : callRemoveDomain(p, domain)
    \/ \E domains \in DomainLists : callSyncDomains(p, domains)
    \/ callRemoveAllDomains(p)
    \/ checkPermissions(p)
    \/ readHosts(p)
    \/ createBackup(p)
    \/ writeHosts(p)
    \/ flushDNS(p)

SpecConc == InitConc /\ [][NextConc]_vars

-----------------------------------------------------------------------------
(* Round trips: buildHostsContent on lines that hold no marker and the     *)
(* hostnames of a set in some order, sorted as syncDomains sorts them, and *)
(* getManagedDomains on the content built.                                 *)

OutsideLines == {line \in LineSet : ~IsStart(line) /\ ~IsEnd(line)}

HostnameLists ==
  {q \in SeqsUpTo(Hostnames, Cardinality(Hostnames)) :
     \A i, j \in 1..Len(q) : i # j => q[i] # q[j]}

InitRT ==
  /\ ProxyOff
  /\ hosts = <<Blank>>
  /\ backup = NoBackup
  /\ pre = hosts
  /\ preBackup = backup
  /\ last = NoCall
  /\ calls = 0
  /\ procs = [p \in Procs |-> Idle]
  /\ \E before \in SeqsUpTo(OutsideLines, MaxLines),
        after \in SeqsUpTo(OutsideLines, MaxLines),
        domains \in HostnameLists :
       rt = [NoTrip EXCEPT !.stage = "input", !.before = before,
                           !.domains = domains, !.after = after]

rebuild ==
  /\ rt.stage = "input"
  /\ rt' = [rt EXCEPT !.stage = "built",
                      !.content = buildHostsContent(rt.before, Sort(rt.domains),
                                                    rt.after)]
  /\ UNCHANGED <<hosts, backup, pre, preBackup, last, calls, procs>>
  /\ UNCHANGED proxyVars

reparse ==
  /\ rt.stage = "built"
  /\ rt' = [rt EXCEPT !.stage = "parsed", !.managed = ManagedDomains(rt.content)]
  /\ UNCHANGED <<hosts, backup, pre, preBackup, last, calls, procs>>
  /\ UNCHANGED proxyVars

NextRT == rebuild \/ reparse

SpecRT == InitRT /\ [][NextRT]_vars

-----------------------------------------------------------------------------
(* The reverse proxy: the registry file and the handling of a request.  A  *)
(* Host header is the sequence of its tokens, ":" or a text with no colon  *)
(* in it; <<>> is the absent or empty header.  A port is a number in the   *)
(* registry and its decimal text in a URL and in a page.                   *)

\* The hostnames of registry entries; a key that validateDomain refuses (it
\* holds an underscore)
RegistryNames == {"api.local", "app.local"}
InvalidName == "bad_host"

\* The ports of registry entries; one lies outside 1..65535
TargetPorts == {3000, 8080}
PortOutOfRange == 70000

\* String(port), as a template literal gives it
PortText == (3000 :> "3000") @@ (8080 :> "8080") @@ (70000 :> "70000")

\* config.domains[domain] of the file, per hostname: no entry, or one
EntriesOf(name) ==
  CASE name = "app.local" ->
         [port : TargetPorts \cup {PortOutOfRange}, proxy : BOOLEAN,
          ssl : BOOLEAN]
    [] name = "api.local" -> {[port |-> 8080, proxy |-> TRUE, ssl |-> FALSE]}
    [] name = InvalidName -> {[port |-> 3000, proxy |-> TRUE, ssl |-> FALSE]}

\* The objects that JSON.parse gives for "domains"
DomainMaps ==
  UNION {[names -> UNION {EntriesOf(n) : n \in names}] :
           names \in SUBSET (RegistryNames \cup {InvalidName})}

\* The registry file: missing, not JSON, or JSON with these domains
Configs ==
  {NoConfig, [file |-> "invalid", domains |-> <<>>]}
  \cup {[file |-> "ok", domains |-> d] :
          d \in {m \in DomainMaps : \A n \in DOMAIN m : m[n] \in EntriesOf(n)}}

\* A hostname given with its protocol
WithProtocol == "http://app.local"

\* domain.replace(/^https?:\/\//, '')
stripProtocol(domain) == IF domain = WithProtocol THEN "app.local" ELSE domain

\* domainRegex.test(domain): labels of letters, digits and inner hyphens,
\* joined by dots
domainRegex(domain) == domain \notin {InvalidName, WithProtocol, ""}

\* validateDomain: the test is made on the name with its protocol removed
validateDomain(domain) == domainRegex(stripProtocol(domain))

validatePort(port) == port >= 1 /\ port <= 65535

\* validateAndMigrate: an invalid key is deleted and its entry, now
\* undefined, is then read for its port, which throws a TypeError; an invalid
\* port becomes 3000
validateAndMigrate(domains) ==
  IF \E domain \in DOMAIN domains : ~validateDomain(domain)
  THEN [ok |-> FALSE, domains |-> <<>>]
  ELSE [ok |-> TRUE,
        domains |-> [domain \in DOMAIN domains |->
                       IF validatePort(domains[domain].port)
                       THEN domains[domain]
                       ELSE [domains[domain] EXCEPT !.port = 3000]]]

\* load: throws when the file is missing or is not JSON, and what
\* validateAndMigrate throws
load(cfg) ==
  IF cfg.file = "ok" THEN validateAndMigrate(cfg.domains)
  ELSE [ok |-> FALSE, domains |-> <<>>]

\* A faulty load: the migrated registry is written back to the file
afterLoadSaved(cfg) ==
  IF load(cfg).ok THEN [cfg EXCEPT !.domains = load(cfg).domains] ELSE cfg

\* The registry file after load() ran on it: load reads the file and gives
\* the migrated object to its caller, and nothing of the core calls save
afterLoad(cfg) == cfg

\* The properties that the parsed object inherits from Object.prototype
ObjectPrototype ==
  {"constructor", "hasOwnProperty", "isPrototypeOf", "propertyIsEnumerable",
   "toLocaleString", "toString", "valueOf", "__proto__"}

\* What the handler reads of a value: whether it is truthy, and its port and
\* proxy properties as texts, "undefined" when it has none
TheNull == [truthy |-> FALSE, port |-> "undefined", proxy |-> "undefined"]
Inherited == [truthy |-> TRUE, port |-> "undefined", proxy |-> "undefined"]
APromise == [truthy |-> TRUE, port |-> "undefined", proxy |-> "undefined"]

\* getDomain, once awaited: domains[domain] || null
getDomain(domains, domain) ==
  IF domain \in DOMAIN domains
  THEN [truthy |-> TRUE, port |-> PortText[domains[domain].port],
        proxy |-> IF domains[domain].proxy THEN "true" ELSE "false"]
  ELSE IF domain \in ObjectPrototype THEN Inherited ELSE TheNull

\* A faulty host: the header is not split
hostWhole(header) ==
  IF header = <<>> THEN ""
  ELSE IF Len(header) = 1 THEN header[1]
  ELSE header[1] \o header[2] \o header[3]

\* req.headers.host ? req.headers.host.split(':')[0] : ''
host(header) ==
  IF header = <<>> \/ header[1] = ":" THEN "" ELSE header[1]

\* A faulty target: the default port, whatever the entry's
targetDefault(domainConfig) == "3000"

\* target: `http://localhost:${domainConfig.port}`, by its port
target(domainConfig) == domainConfig.port

\* The decision of requestHandler on a request with this Host header
route(cfg, header) ==
  LET loaded == load(cfg)
      domainConfig == getDomain(loaded.domains, host(header))
  IN  IF ~loaded.ok THEN [kind |-> "rejected", port |-> "none"]
      ELSE IF domainConfig.truthy /\ domainConfig.proxy # "false"
      THEN [kind |-> "forward", port |-> target(domainConfig)]
      ELSE [kind |-> "404", port |-> "none"]

\* The registry's entry for a hostname, as load gives it
entryOf(cfg, name) ==
  LET loaded == load(cfg)
  IN  IF loaded.ok /\ name \in DOMAIN loaded.domains
      THEN [readable |-> TRUE, entry |-> TRUE,
            port |-> loaded.domains[name].port,
            proxy |-> loaded.domains[name].proxy]
      ELSE [NoEntry EXCEPT !.readable = loaded.ok]

\* The Host headers of the requests
RequestNames == {"api.local", "app.local", "db.local", "constructor"}
HeaderPorts == {"8080"}
HostHeaders ==
  {<<>>} \cup {<<h>> : h \in RequestNames}
         \cup {<<h, ":", p>> : h \in RequestNames, p \in HeaderPorts}

\* Both listeners are bound, on the default ports
Listening ==
  /\ servers = <<Server("http", 80, "listening", "none"),
                 Server("https", 443, "listening", "none")>>
  /\ httpServer = 1
  /\ httpsServer = 2
  /\ proxy = TRUE
  /\ ops = [c \in Callers |-> IdleOp]
  /\ invoked = 0

\* The proxy is started: start() has loaded the registry and found a domain
InitProxy ==
  /\ hosts = <<Blank>>
  /\ backup = NoBackup
  /\ pre = hosts
  /\ preBackup = backup
  /\ last = NoCall
  /\ calls = 0
  /\ procs = [p \in Procs |-> Idle]
  /\ rt = NoTrip
  /\ config \in {c \in Configs : load(c).ok /\ DOMAIN load(c).domains # {}}
  /\ req = NoRequest
  /\ served = 0
  /\ exited = FALSE
  /\ tls = NoHandshake
  /\ settings = DefaultSettings
  /\ Listening

\* forge.pki.rsa.generateKeyPair(2048), called with no callback, computes the
\* key on the thread of the event loop: no other callback of the process
\* runs until it returns
loopHeld == tls.stage = "generating"

\* The stages at which the request has come to its end
Settled == {"none", "answered", "dropped"}

\* A request comes in: requestHandler runs up to `await getDomain(host)`
request(header) ==
  /\ ~exited
  /\ ~loopHeld
  /\ served < MaxRequests
  /\ req.stage \in Settled
  /\ req' = [NoRequest EXCEPT !.stage = "lookup", !.header = header,
                              !.host = host(header)]
  /\ served' = served + 1
  /\ UNCHANGED <<config, exited>>
  /\ UNCHANGED hostsVars
  /\ UNCHANGED tls
  /\ UNCHANGED lifeVars

\* A request with `Connection: Upgrade` (a WebSocket handshake) comes in.
\* Neither server has an 'upgrade' listener, so Node emits 'request' for it
\* and requestHandler takes it as any other request
upgradeRequest(header) ==
  /\ ~exited
  /\ ~loopHeld
  /\ served < MaxRequests
  /\ req.stage \in Settled
  /\ req' = [NoRequest EXCEPT !.stage = "lookup", !.header = header,
                              !.host = host(header), !.upgrade = TRUE]
  /\ served' = served + 1
  /\ UNCHANGED <<config, exited>>
  /\ UNCHANGED hostsVars
  /\ UNCHANGED tls
  /\ UNCHANGED lifeVars

\* getDomain settles.  When load throws, the handler's promise is rejected
\* with no response made, and the process's 'unhandledRejection' handler
\* exits; otherwise the request is handed to proxy.web or answered 404
requestHandler ==
  /\ ~exited
  /\ ~loopHeld
  /\ req.stage = "lookup"
  /\ LET decision == route(config, req.header)
         seen == entryOf(config, req.host)
     IN  CASE decision.kind = "rejected" ->
                /\ req' = [req EXCEPT !.stage = "rejected", !.seen = seen]
                /\ exited' = TRUE
           [] decision.kind = "forward" ->
                /\ req' = [req EXCEPT !.stage = "forwarded", !.seen = seen,
                                      !.target = decision.port]
                /\ UNCHANGED exited
           [] decision.kind = "404" ->
                /\ req' = [req EXCEPT !.stage = "answered", !.seen = seen,
                                      !.status = 404, !.bodyHost = <<req.host>>]
                /\ UNCHANGED exited
  /\ config' = afterLoad(config)
  /\ UNCHANGED served
  /\ UNCHANGED hostsVars
  /\ UNCHANGED tls
  /\ UNCHANGED lifeVars

\* The backend answers and http-proxy passes its response on
proxyResponse ==
  /\ ~exited
  /\ ~loopHeld
  /\ req.stage = "forwarded"
  /\ req' = [req EXCEPT !.stage = "answered", !.status = 200]
  /\ UNCHANGED <<config, served, exited>>
  /\ UNCHANGED hostsVars
  /\ UNCHANGED tls
  /\ UNCHANGED lifeVars

\* The backend accepts the upgrade with 101 Switching Protocols.  The request
\* was handed to proxy.web, whose outgoing request has no 'upgrade' listener
\* (the `ws` option of the call is read by nothing: an upgrade is proxied by
\* proxy.ws alone, which is never called): Node destroys the backend
\* connection, no 'response' is emitted, and the client is sent nothing
backendSwitches ==
  /\ ~exited
  /\ ~loopHeld
  /\ req.stage = "forwarded"
  /\ req.upgrade
  /\ req' = [req EXCEPT !.stage = "dropped"]
  /\ UNCHANGED <<config, served, exited>>
  /\ UNCHANGED hostsVars
  /\ UNCHANGED tls
  /\ UNCHANGED lifeVars

\* The page of proxy.on('error'): host is the Host header as it came, and
\* domainConfig is the promise that getDomain(host) returns, not awaited
errorPage(header) ==
  LET domainConfig == APromise
  IN  [host |-> header,
       port |-> IF domainConfig.truthy THEN domainConfig.port ELSE "N/A"]

\* The backend cannot be reached, or resets: proxy.on('error') answers 502.
\* The promise left alone is rejected when load throws
proxyError ==
  /\ ~exited
  /\ ~loopHeld
  /\ req.stage = "forwarded"
  /\ req' = [req EXCEPT !.stage = "answered", !.status = 502,
                        !.bodyHost = errorPage(req.header).host,
                        !.bodyPort = errorPage(req.header).port]
  /\ exited' = ~load(config).ok
  /\ config' = afterLoad(config)
  /\ UNCHANGED served
  /\ UNCHANGED hostsVars
  /\ UNCHANGED tls
  /\ UNCHANGED lifeVars

\* The registry file is rewritten, by a chost command or by hand, or removed
configChanges ==
  /\ ~exited
  /\ \E c \in Configs \ {config} : config' = c
  /\ UNCHANGED <<req, served, exited>>
  /\ UNCHANGED hostsVars
  /\ UNCHANGED tls
  /\ UNCHANGED lifeVars

NextProxy ==
  \/ \E header \in HostHeaders : request(header)
  \/ \E header \in HostHeaders : upgradeRequest(header)
  \/ requestHandler
  \/ proxyResponse
  \/ backendSwitches
  \/ proxyError
  \/ configChanges

SpecProxy == InitProxy /\ [][NextProxy]_vars

-----------------------------------------------------------------------------
(* TLS handshakes on the HTTPS listener: SNICallback and the certificate   *)
(* provider.  One handshake is followed at a time, next to the request.    *)

\* The server names of the handshakes
ServerNames == {"api.local", "app.local", "db.local", "constructor"}

\* What SNICallback reads of domains[servername]: whether it is truthy and
\* whether its ssl property is
NoSni == [truthy |-> FALSE, ssl |-> FALSE]

\* A faulty lookup: every entry counts as ssl enabled
sniEntryAnySsl(domains, servername) ==
  IF servername \in DOMAIN domains
  THEN [truthy |-> TRUE, ssl |-> TRUE]
  ELSE IF servername \in ObjectPrototype
       THEN [truthy |-> TRUE, ssl |-> FALSE]
       ELSE NoSni

\* const domainConfig = domains[servername]
sniEntry(domains, servername) ==
  IF servername \in DOMAIN domains
  THEN [truthy |-> TRUE, ssl |-> domains[servername].ssl]
  ELSE IF servername \in ObjectPrototype
       THEN [truthy |-> TRUE, ssl |-> FALSE]
       ELSE NoSni

\* if (!domainConfig || !domainConfig.ssl): cb(null, null)
refuses(domainConfig) == ~domainConfig.truthy \/ ~domainConfig.ssl

\* The subject of the certificate: { name: 'commonName', value: domain }
commonName(domain) == domain

\* A faulty SNICallback: what getCertificate throws is not caught, the
\* rejection of the callback's promise ends the process
sniFailureUncaught(cause) == [result |-> "none", exited |-> TRUE]

\* catch (error) { cb(error) } around the whole of SNICallback
sniFailure(cause) == [result |-> "error", exited |-> FALSE]

\* The file holds an entry for the name with ssl enabled
sslInFile(cfg, name) ==
  /\ cfg.file = "ok"
  /\ name \in DOMAIN cfg.domains
  /\ cfg.domains[name].ssl

\* The HTTPS listener accepts connections
httpsOpen ==
  /\ httpsServer # 0
  /\ servers[httpsServer].state = "listening"

\* A client opens a TLS connection naming servername: SNICallback runs up to
\* `await configManager.getDomains()`
clientHello(servername) ==
  /\ ~exited
  /\ ~loopHeld
  /\ httpsOpen
  /\ tls.count < MaxHandshakes
  /\ tls.stage \in {"none", "done"}
  /\ tls' = [NoHandshake EXCEPT !.stage = "lookup", !.servername = servername,
                                !.failures = tls.failures,
                                !.count = tls.count + 1]
  /\ UNCHANGED <<config, req, served, exited>>
  /\ UNCHANGED hostsVars
  /\ UNCHANGED lifeVars

\* getDomains settles.  When load throws, the catch hands the error to the
\* handshake; with no entry, or ssl not enabled, the handshake is given no
\* context; otherwise getCertificate is called, and the executor of its
\* promise starts generating the key pair
SNICallback ==
  /\ ~exited
  /\ ~loopHeld
  /\ tls.stage = "lookup"
  /\ LET loaded == load(config)
         domainConfig == sniEntry(loaded.domains, tls.servername)
         seen == sslInFile(config, tls.servername)
     IN  IF ~loaded.ok
         THEN /\ tls' = [tls EXCEPT !.stage = "done", !.seen = seen,
                                    !.result = sniFailure("load").result]
              /\ exited' = sniFailure("load").exited
         ELSE IF refuses(domainConfig)
         THEN /\ tls' = [tls EXCEPT !.stage = "done", !.seen = seen,
                                    !.result = "refused"]
              /\ UNCHANGED exited
         ELSE /\ tls' = [tls EXCEPT !.stage = "generating", !.seen = seen]
              /\ UNCHANGED exited
  /\ config' = afterLoad(config)
  /\ UNCHANGED <<req, served>>
  /\ UNCHANGED hostsVars
  /\ UNCHANGED lifeVars

\* generateKeyPair returns: the certificate is made and signed, the secure
\* context is created from it and handed to the handshake; or one of these
\* throws and the catch of SNICallback hands the error to the handshake
generateCertificate ==
  /\ ~exited
  /\ tls.stage = "generating"
  /\ \/ /\ tls' = [tls EXCEPT !.stage = "done", !.generated = TRUE,
                               !.cn = commonName(tls.servername),
                               !.result = "context"]
        /\ UNCHANGED exited
     \/ /\ tls' = [tls EXCEPT !.stage = "done", !.generated = TRUE,
                               !.result = sniFailure("forge").result,
                               !.failures = tls.failures + 1]
        /\ exited' = sniFailure("forge").exited
  /\ UNCHANGED <<config, req, served>>
  /\ UNCHANGED hostsVars
  /\ UNCHANGED lifeVars

\* The proxy is started, and the registry file is then any of Configs; it
\* stays as it is for the run
InitTLS ==
  /\ hosts = <<Blank>>
  /\ backup = NoBackup
  /\ pre = hosts
  /\ preBackup = backup
  /\ last = NoCall
  /\ calls = 0
  /\ procs = [p \in Procs |-> Idle]
  /\ rt = NoTrip
  /\ config \in Configs
  /\ req = NoRequest
  /\ served = 0
  /\ exited = FALSE
  /\ tls = NoHandshake
  /\ settings = DefaultSettings
  /\ Listening

NextTLS ==
  \/ \E servername \in ServerNames : clientHello(servername)
  \/ SNICallback
  \/ generateCertificate
  \/ \E header \in HostHeaders : request(header)
  \/ requestHandler
  \/ proxyResponse
  \/ proxyError

SpecTLS == InitTLS /\ [][NextTLS]_vars

-----------------------------------------------------------------------------
(* Vocabulary of the claims *)

Reconciling == last.op \in {"add", "remove", "sync", "clear"}
Succeeded == last.result = "ok"
Failed == last.result \in {"EPERM", "EREAD", "EWRITE"}

IsMarkerLine(line) == IsStart(line) \/ IsEnd(line)
HasMarkerLine(lines) == \E i \in 1..Len(lines) : IsMarkerLine(lines[i])

\* The managed block by position: from the first start marker to the first
\* end marker after it
BlockStart(content) == FindIndex(content, marker)
BlockEnd(content) ==
  LET s == BlockStart(content)
      E == {i \in 1..Len(content) : i > s /\ IsEnd(content[i])}
  IN  IF s = 0 \/ E = {} THEN 0 ELSE CHOOSE i \in E : \A j \in E : i <= j
HasBlock(content) == BlockStart(content) # 0 /\ BlockEnd(content) # 0
LinesBefore(content) ==
  IF HasBlock(content) THEN Slice(content, 1, BlockStart(content) - 1) ELSE content
LinesAfter(content) ==
  IF HasBlock(content) THEN Slice(content, BlockEnd(content) + 1, Len(content))
  ELSE <<>>

\* A start marker with no end marker after it
Truncated(content) == BlockStart(content) # 0 /\ BlockEnd(content) = 0

\* The lines of a text: a terminating newline ends the last line, it does
\* not begin an empty one
TextLines(content) ==
  IF content[Len(content)] = <<>> THEN SubSeq(content, 1, Len(content) - 1)
  ELSE content

Occurrences(x, s) == Cardinality({i \in 1..Len(s) : s[i] = x})

-----------------------------------------------------------------------------
(* C1 *)

\* The outside of the block is kept, with the block taken as parseHosts
\* takes it (first start marker, first end marker) ...
OutsideKeptAsParsed ==
  /\ Join(parseHosts(hosts).beforeManaged) = Join(parseHosts(pre).beforeManaged)
  /\ Join(parseHosts(hosts).afterManaged) = Join(parseHosts(pre).afterManaged)

\* ... or with the block taken by position (the end marker is the first one
\* after the start marker; with no such pair the whole file is outside), the
\* lines before and after it taken together
OutsideKeptByPosition ==
  Join(LinesBefore(hosts) \o LinesAfter(hosts))
    = Join(LinesBefore(pre) \o LinesAfter(pre))

\* C1: every reconciliation call leaves the lines before the start marker and
\* the lines after the end marker (the whole file when there is no managed
\* block) as they were, whatever the initial hosts file.  Stated for the calls
\* that succeed on a file whose start marker, if any, has an end marker after
\* it, and under either way of taking the marker pair.
C1_OutsideKept ==
  (Reconciling /\ Succeeded /\ ~Truncated(pre)) =>
    (OutsideKeptAsParsed \/ OutsideKeptByPosition)

-----------------------------------------------------------------------------
(* C2 *)

\* The content a call leaves when it runs alone and meets no fault
Alone(content, op, arg) ==
  LET plan == planOf(op, arg, content)
  IN  IF plan.write THEN plan.content ELSE content

\* C2: overlapping reconciliation calls are serialized: when two calls have
\* both succeeded, the hosts file is what the two leave when one runs after
\* the other, in some order.
C2_Serialized ==
  LET a == procs["p"]
      b == procs["q"]
  IN  (a.pc = "done" /\ a.result = "ok" /\ b.pc = "done" /\ b.result = "ok") =>
        hosts \in {Alone(Alone(pre, a.op, a.arg), b.op, b.arg),
                   Alone(Alone(pre, b.op, b.arg), a.op, a.arg)}

-----------------------------------------------------------------------------
(* C3 *)

LinesAfterStart(content) ==
  Slice(content, BlockStart(content) + 1, Len(content))

\* C3: when the file has a start marker and no end marker after it, a
\* reconciliation call that succeeds leaves in the file every line that
\* followed the start marker (stated for the lines that are not blank and
\* hold no marker).
C3_RemainderKept ==
  (Reconciling /\ Succeeded /\ Truncated(pre)) =>
    \A i \in 1..Len(LinesAfterStart(pre)) :
      LET line == LinesAfterStart(pre)[i]
      IN  (Trim(line) # <<>> /\ ~IsMarkerLine(line)) => InSeq(line, hosts)

-----------------------------------------------------------------------------
(* C4 *)

\* C4: write-or-nothing: a reconciliation call that fails with a permission,
\* read or write error leaves the hosts file as it was.
C4_WriteOrNothing == (Reconciling /\ Failed) => hosts = pre

-----------------------------------------------------------------------------
(* C5 *)

Elements(s) == {s[i] : i \in 1..Len(s)}

\* C5: the content built from (before, S sorted, after), before and after
\* holding no marker line, parses to the managed set S, and is the same
\* whatever the order in which the hostnames of S are given.
C5_RoundTrip ==
  rt.stage = "parsed" =>
    /\ Elements(rt.managed) = Elements(rt.domains)
    /\ Len(rt.managed) = Len(rt.domains)
    /\ \A other \in HostnameLists :
         Elements(other) = Elements(rt.domains) =>
           buildHostsContent(rt.before, Sort(other), rt.after) = rt.content

C5_Witness ==
  /\ rt.stage = "parsed"
  /\ rt.domains = <<"db.local", "app.local", "api.local">>
  /\ rt.managed = <<"api.local", "app.local", "db.local">>
  /\ rt.before # <<>> /\ rt.after # <<>>

-----------------------------------------------------------------------------
(* C6 *)

\* C6: addHostname(h) is idempotent: after a successful addHostname(h), h is
\* once in the managed block and a second addHostname(h) changes nothing.
C6_AddIdempotent ==
  (last.op = "add" /\ Succeeded) =>
    /\ addPlan(hosts, last.arg[1]).content = hosts
    /\ Occurrences(last.arg[1], ManagedDomains(hosts)) = 1

-----------------------------------------------------------------------------
(* C7 *)

NoOpCase ==
  \/ last.op = "remove" /\ ~InSeq(last.arg[1], ManagedDomains(pre))
  \/ last.op = "add" /\ InSeq(last.arg[1], ManagedDomains(pre))

-----------------------------------------------------------------------------
(* C8 *)

\* The observed call succeeded and wrote an empty managed set
Emptied ==
  /\ Succeeded /\ last.wrote
  /\ \/ last.op = "clear"
     \/ last.op = "sync" /\ last.arg = <<>>
     \/ /\ last.op = "remove"
        /\ \A i \in 1..Len(ManagedDomains(pre)) :
             ManagedDomains(pre)[i] = last.arg[1]

\* C8 as stated: whenever a reconciliation call leaves the managed set empty,
\* the resulting hosts file has neither a start marker line nor an end marker
\* line.
C8_NoMarkerLine == Emptied => ~HasMarkerLine(hosts)

NoMarkerOutside(content) ==
  /\ ~HasMarkerLine(parseHosts(content).beforeManaged)
  /\ ~HasMarkerLine(parseHosts(content).afterManaged)

\* C8 as amended: a call that leaves the managed set empty writes the
\* before-lines followed by the after-lines and no marker line of its own, so
\* the resulting file has no marker line when none stood outside the managed
\* block before the call.
C8_NoMarkerWritten ==
  Emptied =>
    /\ hosts = Join(parseHosts(pre).beforeManaged \o parseHosts(pre).afterManaged)
    /\ NoMarkerOutside(pre) => ~HasMarkerLine(hosts)

C8_Witness ==
  /\ Emptied /\ last.op = "remove"
  /\ HasBlock(pre) /\ NoMarkerOutside(pre)
  /\ hosts # pre

-----------------------------------------------------------------------------
(* C9 *)

Ascending(domains) ==
  \A i \in 1..(Len(domains) - 1) : StrLess(domains[i], domains[i + 1])

-----------------------------------------------------------------------------
(* C10 *)

\* The file '127.0.0.1 localhost', newline-terminated
LocalhostOnly == <<Localhost, Blank>>

\* C10: from that file, addHostname('app.local') then addHostname('api.local')
\* yields exactly the five lines: the preexisting line, the start marker, the
\* two entries sorted, the end marker.
C10_Scenario ==
  ( /\ pre = addPlan(LocalhostOnly, "app.local").content
    /\ last.op = "add" /\ last.arg = <<"api.local">> /\ Succeeded ) =>
    TextLines(hosts) = <<Localhost, <<marker>>, EntryLine("api.local"),
                         EntryLine("app.local"), <<endMarker>>>>

-----------------------------------------------------------------------------
(* C11 *)

\* C11: syncAll(S) replaces the managed set wholesale: after a successful
\* syncAll(S) the managed set parsed from the hosts file is S, whatever the
\* file held before the call.
C11_SyncReplaces ==
  (last.op = "sync" /\ Succeeded) =>
    Elements(ManagedDomains(hosts)) = Elements(last.arg)

-----------------------------------------------------------------------------
(* C12 *)

\* C12: when the hosts file is not writable, addHostname, removeHostname,
\* syncAll and clearAll fail with the permission error before any backup and
\* any write: nothing was written or flushed, and the hosts file and the
\* backup slot are as they were.
C12_DeniedFirst ==
  (Reconciling /\ last.result = "EPERM") =>
    /\ hosts = pre
    /\ backup = preBackup
    /\ ~last.wrote
    /\ last.flush = "none"

\* A second call, denied, on a file and a backup slot that a first call wrote
C12_Witness ==
  /\ last.op = "sync" /\ last.result = "EPERM"
  /\ calls = 2
  /\ preBackup # NoBackup /\ preBackup # pre
  /\ hosts = pre /\ backup = preBackup

-----------------------------------------------------------------------------
(* C13 *)

\* C13: after every reconciliation call that writes the hosts file, the
\* backup slot holds the content the hosts file had immediately before that
\* write.
C13_BackupBeforeWrite ==
  (Reconciling /\ Succeeded /\ last.wrote) => backup = pre

-----------------------------------------------------------------------------
(* C14 *)

\* C14: a failure of the name-resolution cache flush after a write is not
\* fatal: the reconciliation call succeeds and the hosts file holds the new
\* content it wrote.
C14_FlushNotFatal ==
  (Reconciling /\ last.flush = "failed") =>
    /\ Succeeded
    /\ planOf(last.op, last.arg, pre).write
    /\ hosts = planOf(last.op, last.arg, pre).content

C14_Witness ==
  /\ last.op = "remove" /\ last.flush = "failed" /\ Succeeded
  /\ hosts # pre
  /\ ~InSeq(last.arg[1], ManagedDomains(hosts))

-----------------------------------------------------------------------------
(* C15 *)

\* C15: restoreFromBackup() when no write has ever been performed (no backup
\* snapshot exists) reports that no backup was found (returns false) and
\* leaves the hosts file unchanged.
C15_NoBackupFound ==
  (last.op = "restore" /\ preBackup = NoBackup) =>
    /\ last.result = "false"
    /\ hosts = pre
    /\ backup = NoBackup

\* restoreBackup with no backup, after a call that had nothing to write, on a
\* file with a managed block
C15_Witness ==
  /\ last.op = "restore" /\ last.result = "false"
  /\ preBackup = NoBackup
  /\ calls = 2
  /\ HasBlock(pre) /\ hosts = pre

-----------------------------------------------------------------------------
(* C16 *)

\* C16: restoreFromBackup() with a backup snapshot overwrites the hosts file
\* with it and returns true: directly after a reconciliation call that wrote
\* the hosts file and succeeded, it gives back the content that preceded the
\* write.  Stated for the restoreFromBackup() calls that find a backup and
\* return true.
C16_RestoreUndoesWrite ==
  (last.op = "restoreAfterWrite" /\ last.result = "true") => hosts = pre

-----------------------------------------------------------------------------
(* C17 *)

\* requestHandler has decided on the request
Handled == req.stage \in {"forwarded", "answered", "rejected"}

\* The registry held an entry for the request's host, with proxy enabled
Enabled == req.seen.entry /\ req.seen.proxy

\* C17: a request whose bare hostname has no registry entry, or whose entry
\* has proxy disabled, is answered with a 404 page naming that hostname and
\* is never forwarded to any backend port.  Stated for the lookups at which
\* the registry file could be loaded.
C17_UnmappedNotForwarded ==
  (Handled /\ req.seen.readable /\ ~Enabled) =>
    /\ req.stage = "answered"
    /\ req.status = 404
    /\ req.bodyHost = <<req.host>>
    /\ req.target = "none"

-----------------------------------------------------------------------------
(* C18 *)

\* C18: a request whose bare hostname has a registry entry with proxy enabled
\* is forwarded to the local backend on that entry's port, and no other.
C18_ForwardedToEntryPort ==
  (Handled /\ Enabled) =>
    /\ req.stage \in {"forwarded", "answered"}
    /\ req.status # 404
    /\ req.target = PortText[req.seen.port]

C18_Witness ==
  /\ req.stage = "answered" /\ req.status = 200
  /\ req.host = "app.local"
  /\ Enabled /\ req.seen.port = 8080
  /\ req.target = "8080"

-----------------------------------------------------------------------------
(* C19 *)

\* The decision that a handled request shows
Outcome(r) ==
  [kind |-> CASE r.stage = "rejected" -> "rejected"
              [] r.stage = "forwarded" -> "forward"
              [] OTHER -> "404",
   port |-> r.target]

\* C19: the ':port' suffix of the Host header is stripped before the lookup:
\* the decision taken on a request with Host 'h:p' (forward and to which
\* port, or 404) is the one that the registry, as it is at that lookup, gives
\* for Host 'h'.
C19_PortStripped ==
  [][(req.stage = "lookup" /\ req'.stage # "lookup" /\ Len(req.header) = 3) =>
       Outcome(req') = route(config, <<req.header[1]>>)]_vars

C19_Witness ==
  /\ req.header = <<"app.local", ":", "8080">>
  /\ req.stage = "forwarded"
  /\ req.target = "3000"

-----------------------------------------------------------------------------
(* C20 *)

\* C20: when a request forwarded for an enabled hostname fails at the
\* backend, the 502 page names the requested hostname and the entry's target
\* port.
C20_BadGatewayNamesPort ==
  (req.status = 502 /\ Enabled) =>
    /\ InSeq(req.host, req.bodyHost)
    /\ req.bodyPort = PortText[req.seen.port]

-----------------------------------------------------------------------------
(* C21 *)

\* C21: no error raised while handling one request terminates the
\* dispatcher: the request gets a response (or is with the backend) and the
\* process goes on.
C21_ErrorsContained ==
  /\ ~exited
  /\ Handled => req.stage \in {"forwarded", "answered"}

-----------------------------------------------------------------------------
(* C26 *)

\* C26: a handshake is given a certificate only if the registry file holds an
\* entry for its server name with ssl enabled, and the certificate's common
\* name is then the server name; with no such entry the handshake is given no
\* certificate and no key pair is generated; with such an entry the handshake
\* is given the certificate unless it was aborted with an error.
C26_CertificateIffSslEnabled ==
  tls.stage = "done" =>
    /\ tls.result = "context" => (tls.seen /\ tls.cn = tls.servername)
    /\ ~tls.seen =>
         (tls.result \in {"refused", "error"} /\ ~tls.generated /\ tls.cn = "none")
    /\ (tls.seen /\ tls.result # "error") => tls.result = "context"

C26_Witness ==
  /\ tls.stage = "done"
  /\ tls.servername = "app.local"
  /\ tls.result = "context"
  /\ tls.cn = "app.local"

-----------------------------------------------------------------------------
(* C27 *)

\* C27: when the generation of a certificate fails, the error is handed to
\* the callback of the handshake that asked for it, the process goes on and
\* the listeners are left as they are.
C27_FailureAbortsOnlyHandshake ==
  [][(tls.stage = "generating" /\ tls'.stage = "done" /\ tls'.result # "context") =>
       /\ tls'.result = "error"
       /\ exited' = exited
       /\ servers' = servers
       /\ httpsServer' = httpsServer]_vars

\* A handshake is served after the generation failed for an earlier one
C27_Witness ==
  /\ tls.failures = 1
  /\ tls.count = 2
  /\ tls.stage = "done"
  /\ tls.result = "context"

-----------------------------------------------------------------------------
(* C28 *)

\* C28: while one handshake is generating its key and certificate, a request
\* on another connection that waits for its lookup can be handled.
C28_GenerationDoesNotBlock ==
  (tls.stage = "generating" /\ req.stage = "lookup") => ENABLED requestHandler

-----------------------------------------------------------------------------
(* start, stop and reload of the proxy, the 'error' and 'close' events of  *)
(* its two servers, and the connections of clients.  A call is made by one *)
(* of Callers; a call runs from one await to the next in one step.         *)

\* The registry files of these runs: missing, with no domain, with one
LifeConfigs ==
  {NoConfig,
   [file |-> "ok", domains |-> <<>>],
   [file |-> "ok",
    domains |-> ("app.local" :> [port |-> PortOutOfRange, proxy |-> TRUE,
                                 ssl |-> TRUE])]}

\* The settings of the file: the defaults, or another proxyPort and an
\* sslPort of 0
SettingsSet == {DefaultSettings, [proxyPort |-> 8080, sslPort |-> 0]}

\* The file, by its registry and its settings: a file with no domain or a
\* missing file is taken with the default settings
LifeFiles ==
  {f \in LifeConfigs \X SettingsSet :
     DOMAIN f[1].domains = {} => f[2] = DefaultSettings}

\* settings.proxyPort || 80, settings.sslPort || 443
portOr(port, default) == IF port = 0 THEN default ELSE port

\* A faulty count: onServerClose waits for one server more than there are
totalServersThree == 2 + 1

\* const totalServers = 2
totalServers == 2

\* The errors of a bind; "none" when the listener is bound
BindCodes == {"none", "EADDRINUSE", "EACCES"}

\* What listen(port) can come to: the port may be held by another process,
\* and is held when a server of this process listens on it; a port below
\* 1024 may need a privilege that the process lacks
bindOutcomes(port) ==
  {code \in BindCodes :
     /\ code = "EACCES" => port < 1024
     /\ code = "none" =>
          ~\E i \in DOMAIN servers :
              servers[i].port = port /\ servers[i].state = "listening"}

\* The server after listen(): bound; or 'error' is to be emitted with EACCES,
\* whose handler ends the process; or it is emitted with another code, which
\* the handler only logs
afterListen(code) ==
  CASE code = "none" -> "listening"
    [] code = "EACCES" -> "failed"
    [] OTHER -> "errored"

\* The server objects that are still of use, and the handles on them: a
\* server that is closed, or whose bind failed with no more than a log, has
\* no event to come, and once neither handle refers to it, it is garbage
collect(svs, http, https) ==
  LET keep == {i \in DOMAIN svs :
                 svs[i].state \notin {"closed", "errored"} \/ i \in {http, https}}
      rank(i) == Cardinality({j \in keep : j <= i})
  IN  [servers |-> [k \in 1..Cardinality(keep) |->
                      svs[CHOOSE i \in keep : rank(i) = k]],
       http |-> IF http = 0 THEN 0 ELSE rank(http),
       https |-> IF https = 0 THEN 0 ELSE rank(https)]

\* server.listening
listening(i) == i # 0 /\ servers[i].state = "listening"

\* Both handles are set and both servers listen
Bound == listening(httpServer) /\ listening(httpsServer)

\* The call has ended: its promise is resolved or rejected
finish(o, result) ==
  [IdleOp EXCEPT !.op = o.op, !.pc = "done", !.result = result]

\* start() up to its first await: if (this.httpServer || this.httpsServer)
\* it returns at once
enterStart(o, http, https) ==
  IF http # 0 \/ https # 0
  THEN finish(o, "resolved")
  ELSE [o EXCEPT !.pc = "load"]

\* The promise of stop() is resolved: a stop call ends, a reload goes on
\* with start(), and the handles are null by then
afterStop(o) ==
  IF o.reloading THEN enterStart(o, 0, 0)
  ELSE finish(o, "resolved")

\* A call by c: the caller's earlier call has ended
NewOp(c, op) == [IdleOp EXCEPT !.op = op]

CanInvoke(c) ==
  /\ ~exited
  /\ ops[c].pc \in {"idle", "done"}
  /\ invoked < MaxOps

\* A caller calls start()
startCall(c) ==
  /\ CanInvoke(c)
  /\ invoked' = invoked + 1
  /\ ops' = [ops EXCEPT ![c] = enterStart(NewOp(c, "start"),
                                          httpServer, httpsServer)]
  /\ UNCHANGED <<config, req, served, exited, tls>>
  /\ UNCHANGED <<settings, servers, httpServer, httpsServer, proxy>>
  /\ UNCHANGED hostsVars

\* await configManager.load() and await configManager.getDomains() settle:
\* start rejects with what load throws; with no domain it returns; otherwise
\* the proxy is created
startLoad(c) ==
  /\ ~exited
  /\ UNCHANGED invoked
  /\ ops[c].pc = "load"
  /\ LET loaded == load(config)
     IN  IF ~loaded.ok
         THEN /\ ops' = [ops EXCEPT ![c] = finish(@, "rejected")]
              /\ UNCHANGED proxy
         ELSE IF DOMAIN loaded.domains = {}
         THEN /\ ops' = [ops EXCEPT ![c] = finish(@, "resolved")]
              /\ UNCHANGED proxy
         ELSE /\ ops' = [ops EXCEPT ![c].pc = "getSettings"]
              /\ proxy' = TRUE
  /\ config' = afterLoad(config)
  /\ UNCHANGED <<req, served, exited, tls>>
  /\ UNCHANGED <<settings, servers, httpServer, httpsServer>>
  /\ UNCHANGED hostsVars

\* await configManager.getSettings() settles: both servers are created and
\* listen is called on each; start returns without waiting for 'listening'
\* or 'error'
startListen(c) ==
  /\ ~exited
  /\ UNCHANGED invoked
  /\ ops[c].pc = "getSettings"
  /\ IF ~load(config).ok
     THEN /\ ops' = [ops EXCEPT ![c] = finish(@, "rejected")]
          /\ UNCHANGED <<servers, httpServer, httpsServer>>
     ELSE LET httpPort == portOr(settings.proxyPort, 80)
              httpsPort == portOr(settings.sslPort, 443)
          IN  \E httpCode \in bindOutcomes(httpPort),
                 httpsCode \in bindOutcomes(httpsPort) :
                LET live == collect(
                      servers \o
                        <<Server("http", httpPort, afterListen(httpCode),
                                 httpCode),
                          Server("https", httpsPort, afterListen(httpsCode),
                                 httpsCode)>>,
                      Len(servers) + 1, Len(servers) + 2)
                IN  /\ servers' = live.servers
                    /\ httpServer' = live.http
                    /\ httpsServer' = live.https
                /\ ops' = [ops EXCEPT ![c] = finish(@, "resolved")]
  /\ config' = afterLoad(config)
  /\ UNCHANGED <<req, served, exited, tls>>
  /\ UNCHANGED <<settings, proxy>>
  /\ UNCHANGED hostsVars

\* The 'error' event of a server whose bind failed with EACCES: the handler
\* ends the process
serverError(i) ==
  /\ ~exited
  /\ UNCHANGED invoked
  /\ i \in DOMAIN servers
  /\ servers[i].state = "failed"
  /\ servers' = [servers EXCEPT ![i].state = "errored"]
  /\ exited' = (servers[i].code = "EACCES")
  /\ UNCHANGED <<config, req, served, tls>>
  /\ UNCHANGED <<settings, httpServer, httpsServer, proxy, ops>>
  /\ UNCHANGED hostsVars

\* The executor of stop()'s promise: close(onServerClose) on each handle that
\* is set and listening, onServerClose() at once for each other; at
\* closedCount === totalServers the handles are reset and the promise
\* resolved
stopBegins(c, o) ==
  LET closing == {i \in {httpServer, httpsServer} : listening(i)}
      closedCount == 2 - Cardinality(closing)
      closed == [i \in DOMAIN servers |->
                   IF i \in closing
                   THEN [servers[i] EXCEPT !.state = "closing",
                                           !.waiting = @ \cup {c}]
                   ELSE servers[i]]
  IN  IF closedCount = totalServers
      THEN /\ servers' = collect(closed, 0, 0).servers
           /\ httpServer' = 0
           /\ httpsServer' = 0
           /\ proxy' = FALSE
           /\ ops' = [ops EXCEPT ![c] = afterStop(o)]
      ELSE /\ servers' = closed
           /\ ops' = [ops EXCEPT ![c] =
                        [o EXCEPT !.pc = "closing",
                                  !.closedCount = closedCount]]
           /\ UNCHANGED <<httpServer, httpsServer, proxy>>

\* A caller calls stop()
stopCall(c) ==
  /\ CanInvoke(c)
  /\ invoked' = invoked + 1
  /\ stopBegins(c, NewOp(c, "stop"))
  /\ UNCHANGED <<config, req, served, exited, tls>>
  /\ UNCHANGED settings
  /\ UNCHANGED hostsVars

\* A caller calls reload(): stop(), then start()
reloadCall(c) ==
  /\ CanInvoke(c)
  /\ invoked' = invoked + 1
  /\ stopBegins(c, [NewOp(c, "reload") EXCEPT
                      !.reloading = TRUE,
                      !.before = IF Bound
                                 THEN <<servers[httpServer].port,
                                        servers[httpsServer].port>>
                                 ELSE <<>>])
  /\ UNCHANGED <<config, req, served, exited, tls>>
  /\ UNCHANGED settings
  /\ UNCHANGED hostsVars

\* onServerClose, as the close callback of one server, for a stop call
onServerClose(o) ==
  IF o.closedCount + 1 = totalServers
  THEN afterStop([o EXCEPT !.closedCount = @ + 1])
  ELSE [o EXCEPT !.closedCount = @ + 1]

\* The 'close' event of a server: close() was called on it and its last
\* connection has ended
serverClosed(i) ==
  /\ ~exited
  /\ UNCHANGED invoked
  /\ i \in DOMAIN servers
  /\ servers[i].state = "closing"
  /\ ~servers[i].conns
  /\ ops' = [c \in Callers |->
               IF c \in servers[i].waiting THEN onServerClose(ops[c])
               ELSE ops[c]]
  /\ LET closed == [servers EXCEPT ![i].state = "closed", ![i].waiting = {}]
         reset == \E c \in servers[i].waiting :
                    ops[c].closedCount + 1 = totalServers
         live == collect(closed, IF reset THEN 0 ELSE httpServer,
                         IF reset THEN 0 ELSE httpsServer)
     IN  /\ servers' = live.servers
         /\ httpServer' = live.http
         /\ httpsServer' = live.https
         /\ proxy' = IF reset THEN FALSE ELSE proxy
  /\ UNCHANGED <<config, req, served, exited, tls>>
  /\ UNCHANGED settings
  /\ UNCHANGED hostsVars

\* The client of these runs connects to a listening server; it holds one
\* connection at a time
connect(i) ==
  /\ ~exited
  /\ UNCHANGED invoked
  /\ i \in DOMAIN servers
  /\ servers[i].state = "listening"
  /\ \A j \in DOMAIN servers : ~servers[j].conns
  /\ servers' = [servers EXCEPT ![i].conns = TRUE]
  /\ UNCHANGED <<config, req, served, exited, tls>>
  /\ UNCHANGED <<settings, httpServer, httpsServer, proxy, ops>>
  /\ UNCHANGED hostsVars

\* The client ends its connection
disconnect(i) ==
  /\ ~exited
  /\ UNCHANGED invoked
  /\ i \in DOMAIN servers
  /\ servers[i].conns
  /\ servers' = [servers EXCEPT ![i].conns = FALSE]
  /\ UNCHANGED <<config, req, served, exited, tls>>
  /\ UNCHANGED <<settings, httpServer, httpsServer, proxy, ops>>
  /\ UNCHANGED hostsVars

\* The registry file or its settings are rewritten, by a chost command or by
\* hand, or the file is removed
configEdited ==
  /\ ~exited
  /\ UNCHANGED invoked
  /\ \E f \in LifeFiles \ {<<config, settings>>} :
       /\ config' = f[1]
       /\ settings' = f[2]
  /\ UNCHANGED <<req, served, exited, tls>>
  /\ UNCHANGED <<servers, httpServer, httpsServer, proxy, ops>>
  /\ UNCHANGED hostsVars

ServerIds == 1..(2 * MaxOps)

\* new ProxyServer(), with a registry file of LifeConfigs
InitLife ==
  /\ hosts = <<Blank>>
  /\ backup = NoBackup
  /\ pre = hosts
  /\ preBackup = backup
  /\ last = NoCall
  /\ calls = 0
  /\ procs = [p \in Procs |-> Idle]
  /\ rt = NoTrip
  /\ \E f \in LifeFiles :
       /\ config = f[1]
       /\ settings = f[2]
  /\ req = NoRequest
  /\ served = 0
  /\ exited = FALSE
  /\ tls = NoHandshake
  /\ Constructed

NextLife ==
  \/ \E c \in Commands : startCall(c)
  \/ \E c \in Callers : startLoad(c)
  \/ \E c \in Callers : startListen(c)
  \/ \E c \in Callers : stopCall(c)
  \/ \E c \in Commands : reloadCall(c)
  \/ \E i \in ServerIds : serverError(i)
  \/ \E i \in ServerIds : serverClosed(i)
  \/ \E i \in ServerIds : connect(i)
  \/ \E i \in ServerIds : disconnect(i)
  \/ configEdited

SpecLife == InitLife /\ [][NextLife]_vars

\* What the event loop guarantees: a settled await is resumed, and an event
\* that is due is emitted.  Nothing makes a caller call or a client connect
\* or end its connection
SpecLifeFair ==
  /\ SpecLife
  /\ \A c \in Callers : WF_vars(startLoad(c))
  /\ \A c \in Callers : WF_vars(startListen(c))
  /\ \A i \in ServerIds : WF_vars(serverError(i))
  /\ \A i \in ServerIds : WF_vars(serverClosed(i))

-----------------------------------------------------------------------------
(* Vocabulary of the claims on start, stop and reload *)

\* The step ends a call of c with its promise resolved
Resolves(c, op) ==
  /\ ops'[c] # ops[c]
  /\ ops'[c].op = op
  /\ ops'[c].pc = "done"
  /\ ops'[c].result = "resolved"

\* The step is a call by c
Invokes(c, op) ==
  /\ ops[c].pc \in {"idle", "done"}
  /\ invoked' = invoked + 1
  /\ ops'[c].op = op
  /\ \A d \in Callers \ {c} : ops'[d] = ops[d]

\* Neither handle is set
NotStarted == httpServer = 0 /\ httpsServer = 0

\* The stopped state: both handles and the proxy are null
Stopped == NotStarted /\ ~proxy

-----------------------------------------------------------------------------
(* C22 *)

\* C22: when start() completes successfully, each listener that it has
\* created, or that it has found created, is bound and listening: a bind
\* that fails makes start() fail.
C22_StartFailsOnBindError ==
  [][\A c \in Callers :
       Resolves(c, "start") =>
         \A i \in {httpServer', httpsServer'} \ {0} :
            servers'[i].state = "listening"]_vars

-----------------------------------------------------------------------------
(* C23 *)

\* C23: when stop() returns, no listener of the proxy is still closing, its
\* 'close' not yet reported, and none accepts connections.
C23_StopWaitsForClose ==
  [][\A c \in Callers :
       Resolves(c, "stop") =>
         \A i \in DOMAIN servers' :
            servers'[i].state \notin {"listening", "closing"}]_vars

-----------------------------------------------------------------------------
(* C24 *)

\* C24: stop() called while neither listener handle is set, before any
\* start() or after a stop(), resolves in that call and leaves both handles
\* and the proxy null.
C24_StopWhenNotStarted ==
  [][\A c \in Callers :
       (Invokes(c, "stop") /\ NotStarted) =>
         /\ ops'[c].pc = "done"
         /\ ops'[c].result = "resolved"
         /\ httpServer' = 0 /\ httpsServer' = 0 /\ ~proxy']_vars

\* stop() was the first call made
C24_Witness ==
  /\ invoked = 1
  /\ ops["a"].op = "stop"
  /\ ops["a"].result = "resolved"
  /\ Stopped

-----------------------------------------------------------------------------
(* C25 *)

\* C25: when reload(), called on a proxy whose two listeners were listening,
\* completes, both listeners are listening again, on the two ports they were
\* bound to when reload() was called.
C25_ReloadKeepsPorts ==
  [][\A c \in Callers :
       (Resolves(c, "reload") /\ ops[c].before # <<>>) =>
         /\ Bound'
         /\ <<servers'[httpServer'].port, servers'[httpsServer'].port>>
              = ops[c].before]_vars

-----------------------------------------------------------------------------
(* C29 *)

\* C29: a stop() that waits for its listeners to close eventually returns
\* (or the process has ended), whatever the clients do with the connections
\* they hold.
C29_StopTerminates ==
  \A c \in Callers :
    (ops[c].op = "stop" /\ ops[c].pc = "closing") ~> (ops[c].pc = "done" \/ exited)

-----------------------------------------------------------------------------
(* C30 *)

\* C30: a step that changes the registry file is no step of the core: it is
\* no step of a start, stop or reload call, of a server's event, of the
\* handling of a request, of a TLS handshake or of a hosts-file call.
C30_CoreOnlyReads ==
  [][config' # config =>
       /\ UNCHANGED <<ops, invoked, servers, httpServer, httpsServer, proxy>>
       /\ UNCHANGED <<req, served, tls, exited>>
       /\ UNCHANGED hostsVars]_vars

\* start() has completed on a registry whose port it migrated in memory, and
\* the file holds the port as it was
C30_Witness ==
  /\ ops["a"].op = "start"
  /\ ops["a"].result = "resolved"
  /\ Bound
  /\ config.file = "ok"
  /\ "app.local" \in DOMAIN config.domains
  /\ config.domains["app.local"].port = PortOutOfRange

-----------------------------------------------------------------------------
(* C31 *)

\* C31: an upgrade request whose hostname has an enabled registry entry, and
\* whose backend accepts the upgrade, is given the upgraded stream: the
\* request does not end with the connection to the backend destroyed and
\* nothing sent to the client.
C31_UpgradeProxied ==
  (req.upgrade /\ Enabled /\ req.seen.readable) => req.stage # "dropped"

-----------------------------------------------------------------------------
(* C32 *)

MaxMentionLines == 2  \* longest initial hosts file with lines that mention a marker

\* Comment lines that hold a marker's text within a longer line
StartMention == <<"#", SPACE, marker>>
EndMention == <<"#", SPACE, endMarker>>

MentionLineSet == {Localhost, StartMention, EndMention, EntryLine("db.local")}

\* The runs that start from a hosts file with such lines and no marker line
InitMention ==
  /\ ProxyOff
  /\ hosts \in SeqsUpTo(MentionLineSet, MaxMentionLines) \ {<<>>}
  /\ backup = NoBackup
  /\ pre = hosts
  /\ preBackup = backup
  /\ last = NoCall
  /\ calls = 0
  /\ procs = [p \in Procs |-> Idle]
  /\ rt = NoTrip

SpecMention == InitMention /\ [][Next]_vars

\* The line holds a marker's text and is more than the marker
IsMention(line) ==
  \/ Includes(line, marker) /\ line # <<marker>>
  \/ Includes(line, endMarker) /\ line # <<endMarker>>

\* No line of the content is a marker
NoMarkerLine(content) ==
  \A i \in 1..Len(content) : content[i] \notin {<<marker>>, <<endMarker>>}

\* C32: a line that holds a marker's text within a longer line is no marker:
\* a reconciliation call that succeeds on a file with no marker line leaves
\* every such line in the file, in the order they had.
C32_MarkersExact ==
  (/\ last.op \in {"add", "remove", "sync", "clear"}
   /\ last.result = "ok"
   /\ NoMarkerLine(pre)) =>
    SelectSeq(hosts, IsMention) = SelectSeq(pre, IsMention)

-----------------------------------------------------------------------------
(* The registry's addDomain and removeDomain (ConfigManager), called one   *)
(* after the other on the registry file that `chost init` wrote, or with   *)
(* no registry file.                                                       *)

\* The hostnames and ports that the calls are made with
RegistryInputs == CallDomains \cup {WithProtocol, InvalidName, "constructor"}
PortInputs == TargetPorts \cup {PortOutOfRange}

\* getDefaultConfig(), by its domains
DefaultConfig == [file |-> "ok", domains |-> <<>>]

\* config.domains[domain] is truthy: an entry, or what Object.prototype gives
hasDomain(domains, domain) == getDomain(domains, domain).truthy

\* ConfigManager.addDomain up to save: validateDomain, validatePort, load, the
\* lookup, the new entry under the name as it was given; config is the
\* object handed to save
registryAdd(cfg, domain, port, enabled) ==
  LET loaded == load(cfg)
  IN  IF ~validateDomain(domain) THEN [result |-> "EDOMAIN", config |-> cfg]
      ELSE IF ~validatePort(port) THEN [result |-> "EPORT", config |-> cfg]
      ELSE IF ~loaded.ok THEN [result |-> "ELOAD", config |-> cfg]
      ELSE IF hasDomain(loaded.domains, domain)
      THEN [result |-> "EEXISTS", config |-> cfg]
      ELSE [result |-> "ok",
            config |-> [file |-> "ok",
                        domains |->
                          [d \in DOMAIN loaded.domains \cup {domain} |->
                             IF d = domain
                             THEN [port |-> port, proxy |-> enabled, ssl |-> FALSE]
                             ELSE loaded.domains[d]]]]

\* ConfigManager.removeDomain up to save: load, the lookup, delete
registryRemove(cfg, domain) ==
  LET loaded == load(cfg)
  IN  IF ~loaded.ok THEN [result |-> "ELOAD", config |-> cfg]
      ELSE IF ~hasDomain(loaded.domains, domain)
      THEN [result |-> "ENOTFOUND", config |-> cfg]
      ELSE [result |-> "ok",
            config |-> [file |-> "ok",
                        domains |-> [d \in DOMAIN loaded.domains \ {domain} |->
                                       loaded.domains[d]]]]

\* save(config): fs.writeJson writes the file, or throws and the file stays
saved(cfg, r) ==
  IF r.result = "ok"
  THEN {r, [result |-> "ESAVE", config |-> cfg]}
  ELSE {r}

\* One call of the registry ends with this outcome
registryCall(op, domain, r) ==
  /\ config' = r.config
  /\ last' = Call(op, <<domain>>, r.result, r.config # config, "none")
  /\ UNCHANGED <<hosts, backup, pre, preBackup, calls, procs, rt>>
  /\ UNCHANGED <<req, served, exited, tls>>
  /\ UNCHANGED lifeVars

configAddDomain(domain, port, enabled) ==
  \E r \in saved(config, registryAdd(config, domain, port, enabled)) :
    registryCall("configAdd", domain, r)

configRemoveDomain(domain) ==
  \E r \in saved(config, registryRemove(config, domain)) :
    registryCall("configRemove", domain, r)

InitRegistry ==
  /\ hosts = <<Blank>>
  /\ backup = NoBackup
  /\ pre = hosts
  /\ preBackup = backup
  /\ last = NoCall
  /\ calls = 0
  /\ procs = [p \in Procs |-> Idle]
  /\ rt = NoTrip
  /\ config \in {DefaultConfig, NoConfig}
  /\ req = NoRequest
  /\ served = 0
  /\ exited = FALSE
  /\ tls = NoHandshake
  /\ settings = DefaultSettings
  /\ Constructed

NextRegistry ==
  \/ \E domain \in RegistryInputs, port \in PortInputs, enabled \in BOOLEAN :
       configAddDomain(domain, port, enabled)
  \/ \E domain \in RegistryInputs : configRemoveDomain(domain)

SpecRegistry == InitRegistry /\ [][NextRegistry]_vars

-----------------------------------------------------------------------------
(* C33 *)

\* C33: after any sequence of registry addDomain and removeDomain calls,
\* every key of the registry is a hostname (it passes the hostname pattern as
\* it stands) and every port is in 1..65535.
C33_RegistryValid ==
  config.file = "ok" =>
    \A d \in DOMAIN config.domains :
      domainRegex(d) /\ validatePort(config.domains[d].port)

-----------------------------------------------------------------------------
(* The add and remove commands of the CLI, each one a run of the program,  *)
(* one after the other.  A command changes the registry file through       *)
(* ConfigManager and then, when settings.hostsFileManagement is set, the   *)
(* hosts file through HostsManager.                                        *)

\* The options the commands are run with: --port, and no --keep-hosts
CommandPorts == {3000}
KeepHostsInputs == {FALSE}

\* The outcomes of one HostsManager call that decided on this plan: it throws
\* with the file untouched (no permission, the file cannot be read), finds
\* nothing to change, or takes its backup and writes
hostsCall(plan) ==
  {[ok |-> FALSE, hosts |-> hosts, backup |-> backup]}
  \cup (IF ~plan.write
        THEN {[ok |-> TRUE, hosts |-> hosts, backup |-> backup]}
        ELSE {[ok |-> w.ok, hosts |-> w.content,
               backup |-> IF copied THEN hosts ELSE backup] :
                w \in writeFile(hosts, plan.content), copied \in BOOLEAN})

\* The command ends with this outcome
commandEnds(op, domain, result, cfg, h) ==
  /\ config' = cfg
  /\ hosts' = h.hosts
  /\ backup' = h.backup
  /\ last' = Call(op, <<domain>>, result, h.hosts # hosts, "none")
  /\ UNCHANGED <<pre, preBackup, calls, procs, rt>>
  /\ UNCHANGED <<req, served, exited, tls>>
  /\ UNCHANGED lifeVars

\* The hosts file is left alone
hostsKept == [ok |-> TRUE, hosts |-> hosts, backup |-> backup]

\* The hosts-file step of a command: skipped, or a HostsManager call whose
\* failure is caught and logged as a warning
hostsStep(managed, plan) == IF managed THEN hostsCall(plan) ELSE {hostsKept}

\* chost add <domain> --port <port>
addCommand(domain, port) ==
  \/ \* the domain or the port is refused, or the user declines a busy port
     commandEnds("addCommand", domain, "returned", config, hostsKept)
  \/ /\ validateDomain(domain) /\ validatePort(port)
     /\ \E r \in saved(config, registryAdd(config, domain, port, TRUE)) :
          IF r.result # "ok"
          THEN \* configManager.addDomain throws: process.exit(1)
               commandEnds("addCommand", domain, "exit", config, hostsKept)
          ELSE \E h \in hostsStep(settings.hostsFileManagement,
                                  addPlan(hosts, domain)) :
                 commandEnds("addCommand", domain, "ok", r.config, h)

\* chost remove <domain> [--keep-hosts]
removeCommand(domain, keepHosts) ==
  \/ \* getDomain throws: process.exit(1)
     /\ ~load(config).ok
     /\ commandEnds("removeCommand", domain, "exit", config, hostsKept)
  \/ \* the domain is not found, or the user does not confirm
     /\ load(config).ok
     /\ commandEnds("removeCommand", domain, "returned", config, hostsKept)
  \/ /\ load(config).ok
     /\ hasDomain(load(config).domains, domain)
     /\ \E r \in saved(config, registryRemove(config, domain)) :
          IF r.result # "ok"
          THEN commandEnds("removeCommand", domain, "exit", config, hostsKept)
          ELSE \E h \in hostsStep(settings.hostsFileManagement /\ ~keepHosts,
                                  removePlan(hosts, domain)) :
                 commandEnds("removeCommand", domain, "ok", r.config, h)

\* `chost init` was run, with or without --no-hosts, or there is no registry
\* file; the hosts file has no managed block
InitCommands ==
  /\ hosts = <<Localhost>>
  /\ backup = NoBackup
  /\ pre = hosts
  /\ preBackup = backup
  /\ last = NoCall
  /\ calls = 0
  /\ procs = [p \in Procs |-> Idle]
  /\ rt = NoTrip
  /\ config \in {DefaultConfig, NoConfig}
  /\ req = NoRequest
  /\ served = 0
  /\ exited = FALSE
  /\ tls = NoHandshake
  /\ settings \in {[proxyPort |-> 80, sslPort |-> 443, hostsFileManagement |-> m] :
                     m \in BOOLEAN}
  /\ Constructed

NextCommands ==
  \/ \E domain \in CallDomains, port \in CommandPorts : addCommand(domain, port)
  \/ \E domain \in CallDomains, keepHosts \in KeepHostsInputs :
       removeCommand(domain, keepHosts)

SpecCommands == InitCommands /\ [][NextCommands]_vars

-----------------------------------------------------------------------------
(* C34 *)

\* C34: after any sequence of completed add and remove commands run with
\* hosts-file management enabled and without --keep-hosts, the hostnames of
\* the managed block of the hosts file are those of the registry.
C34_HostsMatchRegistry ==
  settings.hostsFileManagement =>
    {ManagedDomains(hosts)[i] : i \in 1..Len(ManagedDomains(hosts))}
      = DOMAIN config.domains

-----------------------------------------------------------------------------
(* C35 *)

\* What the registry file, as it stands, says of a hostname: forward to the
\* entry's port (3000 for a port out of range) when it has an entry with
\* proxy enabled, and 404 otherwise
RoutedBy(cfg, name) ==
  IF name \in DOMAIN cfg.domains /\ cfg.domains[name].proxy
  THEN [kind |-> "forward",
        port |-> IF validatePort(cfg.domains[name].port)
                 THEN PortText[cfg.domains[name].port] ELSE "3000"]
  ELSE [kind |-> "404", port |-> "none"]

\* C35: the decision on a request is taken from the registry file as it is
\* when the request is handled, whatever the file held when the proxy was
\* started or at earlier requests: the request for a hostname is forwarded or
\* answered 404 as the file then says.
C35_RoutesByCurrentRegistry ==
  [][(/\ req.stage = "lookup" /\ req'.stage # "lookup"
      /\ config.file = "ok"
      /\ req.host \in RegistryNames) =>
       Outcome(req') = RoutedBy(config, req.host)]_vars

\* The same, for the registry files that load() accepts
C35_RoutesByLoadableRegistry ==
  [][(/\ req.stage = "lookup" /\ req'.stage # "lookup"
      /\ load(config).ok
      /\ req.host \in RegistryNames) =>
       Outcome(req') = RoutedBy(config, req.host)]_vars

-----------------------------------------------------------------------------
(* C38 *)

\* No call of start, stop or reload is in progress, and no 'error' event of
\* a server is still to be emitted
Quiet ==
  /\ ~exited
  /\ \A c \in Callers : ops[c].pc \in {"idle", "done"}
  /\ \A i \in DOMAIN servers : servers[i].state # "failed"

\* C38: whenever a listener handle is set while no call is in progress, the
\* server it refers to is bound and listening.
C38_HandlesMatchListeners ==
  Quiet =>
    /\ httpServer # 0 => listening(httpServer)
    /\ httpsServer # 0 => listening(httpsServer)

\* C38, of start(): a start() that returns at once, as on a running proxy,
\* finds both listeners listening.
C38_AlreadyRunningMeansBound ==
  [][\A c \in Callers :
       (Quiet /\ Invokes(c, "start") /\ ops'[c].pc = "done") => Bound]_vars

-----------------------------------------------------------------------------
(* The runs in which the command calls start() and reload() and the SIGINT *)
(* handler calls stop(), and no start() or reload() is called once stop()  *)
(* has been called: what comes up after a stop() comes from a call made    *)
(* before it.                                                              *)

\* stop() has been called by the handler
StopCalled == ops["b"].op = "stop"

startBeforeStop == ~StopCalled /\ startCall("a")

reloadBeforeStop == ~StopCalled /\ reloadCall("a")

NextStopRace ==
  \/ startBeforeStop
  \/ reloadBeforeStop
  \/ \E c \in Callers : startLoad(c)
  \/ \E c \in Callers : startListen(c)
  \/ stopCall("b")
  \/ \E i \in ServerIds : serverError(i)
  \/ \E i \in ServerIds : serverClosed(i)
  \/ \E i \in ServerIds : connect(i)
  \/ \E i \in ServerIds : disconnect(i)
  \/ configEdited

SpecStopRace == InitLife /\ [][NextStopRace]_vars

-----------------------------------------------------------------------------
(* C37 *)

\* No server of the process listens
NoListener == \A i \in DOMAIN servers : servers[i].state # "listening"

\* C37: once stop() has resolved, and as long as no start() or reload() is
\* called after it, no server listens and both handles are null.
C37_StopIsFinal ==
  (ops["b"].op = "stop" /\ ops["b"].pc = "done" /\ ops["b"].result = "resolved")
    => (NotStarted /\ NoListener)

-----------------------------------------------------------------------------
(* The runs in which start() alone is called, by two callers whose calls   *)
(* may overlap.                                                            *)

NextStarts ==
  \/ \E c \in Callers : startCall(c)
  \/ \E c \in Callers : startLoad(c)
  \/ \E c \in Callers : startListen(c)
  \/ \E i \in ServerIds : serverError(i)
  \/ configEdited

SpecStarts == InitLife /\ [][NextStarts]_vars

-----------------------------------------------------------------------------
(* C36 *)

\* The servers of a kind that listen
Listeners(kind) ==
  {i \in DOMAIN servers : servers[i].kind = kind /\ servers[i].state = "listening"}

\* C36: whatever start() calls are made, one after the other or overlapping,
\* at most one plaintext and one TLS server listen, and each server that
\* listens is the one its handle refers to.
C36_OnePairOfListeners ==
  /\ Listeners("http") \subseteq {httpServer}
  /\ Listeners("https") \subseteq {httpsServer}

-----------------------------------------------------------------------------
(* C39 *)

\* C39: for a hosts file with both markers, the lines that parseHosts gives
\* as before-lines, the start marker, the lines between the markers, the end
\* marker and the lines it gives as after-lines, in that order, are the lines
\* of the file.
C39_ParserPartitions ==
  LET lines == Split(hosts)
      managedStart == FindIndex(lines, marker)
      managedEnd == FindIndex(lines, endMarker)
      p == parseHosts(hosts)
  IN  (managedStart # 0 /\ managedEnd # 0) =>
        p.beforeManaged
          \o <<lines[managedStart]>>
          \o Slice(lines, managedStart + 1, managedEnd - 1)
          \o <<lines[managedEnd]>>
          \o p.afterManaged
        = lines

-----------------------------------------------------------------------------
(* C40 *)

\* The registry that the claim has load() return: the entries with a valid
\* hostname, each with its port, or 3000 for a port out of range
Migrated(domains) ==
  [d \in {n \in DOMAIN domains : validateDomain(n)} |->
     IF validatePort(domains[d].port) THEN domains[d]
     ELSE [domains[d] EXCEPT !.port = 3000]]

\* C40: whenever the registry file is JSON, load() succeeds and returns the
\* valid entries, those with an invalid hostname dropped.
C40_LoadDropsInvalid ==
  config.file = "ok" =>
    /\ load(config).ok
    /\ load(config).domains = Migrated(config.domains)

====
